---- MODULE Spec2Model ----
(***************************************************************************)
(* Model of the Aetheria client: the AppProvider store (session, settings, *)
(* chats, messages, chat locks) and the view state of App, LoginScreen,    *)
(* HomeScreen, UnlockChatModal and ChatScreen that decides which handler   *)
(* can run and which effect is armed.                                      *)
(*                                                                         *)
(* One action is one event handler or timer callback together with the     *)
(* render that follows it: React applies every setState of a handler in    *)
(* one commit, a component that is no longer rendered loses its useState   *)
(* values, and an effect is re-run when one of its dependencies changes.   *)
(*                                                                         *)
(* Time is in seconds, counted from 2023-10-27T10:00:00Z, the timestamp of *)
(* the oldest seed message.  Date.now() is the variable now.               *)
(***************************************************************************)
EXTENDS Integers, Sequences, FiniteSets, TLC

VARIABLES
    currentUser,      \* AppProvider: User | null, as <<>> or <<user>>
    users,            \* AppProvider: User[]
    settings,         \* AppProvider: AppSettings
    chats,            \* AppProvider: Chat[] (without the messages)
    messages,         \* AppProvider: chat id -> Message[]
    lockedChats,      \* AppProvider: chat id -> PIN, only the locked chats
    page,             \* App: the page shown
    activeChat,       \* App: Chat | null, the Chat object picked at selection
    unlockingChatId,  \* HomeScreen: string | null
    unlockedChats,    \* HomeScreen: Set<string>
    pinError,         \* UnlockChatModal: boolean
    isAuthenticating, \* UnlockChatModal: boolean
    pinTimers,        \* UnlockChatModal: pending setTimeout(() => setPinError(false))
    bioPending,       \* setTimeout callbacks of simulateBiometricAuth in flight
    error,            \* LoginScreen: the inline message
    sweepDue,         \* ChatScreen: when the armed interval fires, <<>> if none
    now,              \* the clock
    ticks,            \* how many times the clock has advanced
    thrown,           \* a state updater raised a TypeError: the tree is unmounted
    passedCheck,      \* history: chats whose PIN or biometric check has succeeded
    posts,            \* AppProvider: Post[]
    stories,          \* AppProvider: Story[]
    viewingUserStories \* App: {user, stories} | null, as <<>> or <<record>>

storeVars == <<currentUser, users, settings, chats, messages, lockedChats>>
homeVars  == <<unlockingChatId, unlockedChats, pinError, isAuthenticating, pinTimers>>
viewVars  == <<page, activeChat, homeVars, bioPending, error, sweepDue>>
feedVars  == <<posts, stories, viewingUserStories>>
vars      == <<storeVars, viewVars, now, ticks, thrown, passedCheck, feedVars>>

----------------------------------------------------------------------------
(* Bounds of the model *)

MaxUsers == 4      \* directory size at which signup is no longer tried
MaxMsgs  == 4      \* list length at which nothing more is appended to a chat
MaxTicks == 2      \* how many times the clock advances
MaxPinTimers == 2  \* failed PIN attempts whose timeout has not fired yet
MaxReactions == 3  \* user ids in all reaction entries together
MaxStories == 6    \* stories in the store
MaxPosts == 5      \* posts in the store

(* Program constants *)

NullTimer       == 0         \* disappearingMessageTimer: null (off)
Timer24h        == 86400
Timer7d         == 604800
SweepInterval   == 60        \* setInterval(..., 60000), in seconds
StartNow        == 3660      \* the newest seed message: 2023-10-27T11:01:00Z

TimerOptions == {NullTimer, Timer24h, Timer7d}
ClockSteps   == {SweepInterval, Timer24h, Timer7d}

NoChat  == ""            \* unlockingChatId: null
NullPin == "<null>"      \* toggleChatLock(chatId, null)
SYSTEM  == <<"system", 0>>
NoId    == <<"", 0>>     \* currentUser?.id || ''

Range(s) == {s[i] : i \in DOMAIN s}

----------------------------------------------------------------------------
(* String.prototype.toLowerCase on the usernames the model types in *)

Usernames == {"aetheria", "alex", "Alex", "casey", "bo", "BO"}

toLowerCase(s) ==
    CASE s = "Alex" -> "alex"
      [] s = "BO"   -> "bo"
      [] OTHER      -> s

(* Math.random()-built security codes: two possible outcomes *)
RandomCodes == {"k1x-k1x-k1x-k1x", "k2y-k2y-k2y-k2y"}

----------------------------------------------------------------------------
(* Seed data *)

U1 == <<"user", 1>>
U2 == <<"user", 2>>
U3 == <<"user", 3>>

MOCK_USERS == <<
    [id |-> U1, username |-> "aetheria", avatarUrl |-> "aetheria",
     profileIsPublic |-> FALSE, securityCode |-> "ax-23-de-56", blockedUserIds |-> <<>>],
    [id |-> U2, username |-> "alex", avatarUrl |-> "alex",
     profileIsPublic |-> TRUE, securityCode |-> "fg-90-jk-12", blockedUserIds |-> <<>>],
    [id |-> U3, username |-> "casey", avatarUrl |-> "casey",
     profileIsPublic |-> FALSE, securityCode |-> "lm-34-op-78", blockedUserIds |-> <<>>] >>

Msg(id, sender, text, ts, type) ==
    [id |-> id, senderId |-> sender, text |-> text, timestamp |-> ts,
     reactions |-> <<>>, type |-> type]

MOCK_CHATS == <<
    [id |-> "chat-1", participantIds |-> <<U1, U2>>, disappearingMessageTimer |-> NullTimer],
    [id |-> "chat-2", participantIds |-> <<U1, U3>>, disappearingMessageTimer |-> Timer24h] >>

MOCK_MESSAGES ==
    [c \in {"chat-1", "chat-2"} |->
        IF c = "chat-1"
        THEN << Msg(<<"msg", "1", 1>>, U2, <<"Hey, how is the new secure app?", "", "">>, 0, "user"),
                [Msg(<<"msg", "1", 2>>, U1, <<"It's amazing!", "", "">>, 60, "user")
                    EXCEPT !.reactions = << [emoji |-> "heart", userIds |-> <<U2>>] >>],
                Msg(<<"msg", "1", 3>>, U2, <<"Love the galaxy theme in the chat.", "", "">>, 90, "user") >>
        ELSE << Msg(<<"msg", "2", 1>>, U3, <<"Did you try the chat lock feature?", "", "">>, 3600, "user"),
                Msg(<<"msg", "2", 2>>, U1, <<"Yes! It works perfectly.", "", "">>, 3660, "user") >>]

ChatIds == {MOCK_CHATS[i].id : i \in DOMAIN MOCK_CHATS}

Hour == 3600

(* Post timestamps, like those of the messages, counted from 2023-10-27T10:00:00Z *)
MOCK_POSTS == <<
    [id |-> <<"post", 1>>, userId |-> U1, timestamp |-> -55800],
    [id |-> <<"post", 2>>, userId |-> U2, timestamp |-> -165600],
    [id |-> <<"post", 3>>, userId |-> U1, timestamp |-> -216900],
    [id |-> <<"post", 4>>, userId |-> U2, timestamp |-> -342000] >>

(* Story timestamps are taken from Date.now() when the module is loaded *)
MOCK_STORIES == <<
    [id |-> <<"story", 1>>, userId |-> U2, timestamp |-> StartNow - 2 * Hour],
    [id |-> <<"story", 2>>, userId |-> U2, timestamp |-> StartNow - 1 * Hour],
    [id |-> <<"story", 3>>, userId |-> U3, timestamp |-> StartNow - 10 * Hour],
    [id |-> <<"story", 4>>, userId |-> U1, timestamp |-> StartNow - 5 * Hour],
    [id |-> <<"story", 5>>, userId |-> U3, timestamp |-> StartNow - 30 * Hour] >>

InitSettings ==
    [theme |-> "system", notifications |-> TRUE, profileIsPublic |-> FALSE,
     enablePosts |-> FALSE, enableStories |-> FALSE, twoFactorEnabled |-> FALSE,
     enableBiometrics |-> FALSE, showSecurityNotifications |-> TRUE]

Init ==
    /\ currentUser = <<>>
    /\ users = MOCK_USERS
    /\ settings = InitSettings
    /\ chats = MOCK_CHATS
    /\ messages = MOCK_MESSAGES
    /\ lockedChats = <<>>
    /\ page = "home"
    /\ activeChat = <<>>
    /\ unlockingChatId = NoChat
    /\ unlockedChats = {}
    /\ pinError = FALSE
    /\ isAuthenticating = FALSE
    /\ pinTimers = 0
    /\ bioPending = {}
    /\ error = ""
    /\ sweepDue = <<>>
    /\ now = StartNow
    /\ ticks = 0
    /\ thrown = FALSE
    /\ passedCheck = {}
    /\ posts = MOCK_POSTS
    /\ stories = MOCK_STORIES
    /\ viewingUserStories = <<>>

----------------------------------------------------------------------------
(* Which screen App renders *)

ChatScreenShown(cu, pg, ac) == cu # <<>> /\ pg = "chat" /\ ac # <<>>

HomeScreenShown(cu, pg, ac) ==
    cu # <<>> /\ ~(pg = "chat" /\ ac # <<>>) /\ pg \notin {"discover", "settings"}

SettingsScreenShown(cu, pg, ac) == cu # <<>> /\ pg = "settings"

NavShown(cu, pg) == cu # <<>> /\ pg # "chat"

(* The render after a handler.  Each takes the values the handler set and   *)
(* keeps them only where the component that owns the state stays mounted.   *)

RenderLogin(nextError) ==
    error' = IF currentUser = <<>> /\ currentUser' = <<>> THEN nextError ELSE ""

RenderHome(nextUnlocking, nextUnlocked, nextPinError, nextAuth, nextTimers) ==
    IF /\ HomeScreenShown(currentUser, page, activeChat)
       /\ HomeScreenShown(currentUser', page', activeChat')
    THEN /\ unlockingChatId' = nextUnlocking
         /\ unlockedChats' = nextUnlocked
         /\ pinError' = nextPinError
         /\ isAuthenticating' = nextAuth
         /\ pinTimers' = nextTimers
    ELSE /\ unlockingChatId' = NoChat
         /\ unlockedChats' = {}
         /\ pinError' = FALSE
         /\ isAuthenticating' = FALSE
         /\ pinTimers' = 0     \* callbacks of the old instance set nothing

KeepHome ==
    RenderHome(unlockingChatId, unlockedChats, pinError, isAuthenticating, pinTimers)

(* The expiry effect of ChatScreen: armed while the screen is shown and the *)
(* chat prop has a timer, re-armed when chat.id, chat.disappearingMessage-  *)
(* Timer or the messages object changes.  setMessagesCalled: the handler    *)
(* produced a new messages object.                                          *)
RenderSweep(setMessagesCalled) ==
    sweepDue' =
        IF ~ChatScreenShown(currentUser', page', activeChat') THEN <<>>
        ELSE IF activeChat'[1].disappearingMessageTimer = NullTimer THEN <<>>
        ELSE IF /\ ChatScreenShown(currentUser, page, activeChat)
                /\ activeChat'[1].id = activeChat[1].id
                /\ activeChat'[1].disappearingMessageTimer = activeChat[1].disappearingMessageTimer
                /\ ~setMessagesCalled
             THEN sweepDue
             ELSE <<now' + SweepInterval>>

----------------------------------------------------------------------------
(* Session store *)

FindUser(us, Test(_)) ==
    LET hits == SelectSeq(us, Test) IN IF hits = <<>> THEN <<>> ELSE <<hits[1]>>

loginFind_CaseSensitive(us, username) ==
    FindUser(us, LAMBDA u : u.username = username)

loginFind(us, username) ==
    FindUser(us, LAMBDA u : toLowerCase(u.username) = toLowerCase(username))

userExists_CaseSensitive(us, username) ==
    \E i \in DOMAIN us : us[i].username = username

userExists(us, username) ==
    \E i \in DOMAIN us : toLowerCase(us[i].username) = toLowerCase(username)

newUser(username, code) ==
    [id |-> <<"user", now>>, username |-> username, avatarUrl |-> username,
     profileIsPublic |-> FALSE, securityCode |-> code, blockedUserIds |-> <<>>]

(* LoginScreen.handleSubmit, login form *)
login(username) ==
    /\ currentUser = <<>>
    /\ LET user == loginFind(users, username) IN
        IF user # <<>>
        THEN /\ currentUser' = user
             /\ settings' = [settings EXCEPT !.profileIsPublic = user[1].profileIsPublic]
             /\ RenderLogin("")
        ELSE /\ UNCHANGED <<currentUser, settings>>
             /\ RenderLogin("Invalid username or password.")
    /\ UNCHANGED <<users, chats, messages, lockedChats, page, activeChat, bioPending, now, ticks, thrown, passedCheck, feedVars>>
    /\ KeepHome
    /\ RenderSweep(FALSE)

(* LoginScreen.handleSubmit, signup form with a non-empty username and      *)
(* matching passwords *)
signup(username, code) ==
    /\ currentUser = <<>>
    /\ (userExists(users, username) \/ Len(users) < MaxUsers)
    /\ IF userExists(users, username)
       THEN /\ UNCHANGED <<users, currentUser>>
            /\ RenderLogin("Username is already taken.")
       ELSE /\ users' = Append(users, newUser(username, code))
            /\ currentUser' = <<newUser(username, code)>>
            /\ RenderLogin("")
    /\ UNCHANGED <<settings, chats, messages, lockedChats, page, activeChat, bioPending, now, ticks, thrown, passedCheck, feedVars>>
    /\ KeepHome
    /\ RenderSweep(FALSE)

(* SettingsScreen: Log Out *)
logout_ResetsSettings ==
    /\ SettingsScreenShown(currentUser, page, activeChat)
    /\ currentUser' = <<>>
    /\ settings' = InitSettings
    /\ UNCHANGED <<users, chats, messages, lockedChats, page, activeChat, bioPending, now, ticks, thrown, passedCheck, feedVars>>
    /\ RenderLogin("")
    /\ KeepHome
    /\ RenderSweep(FALSE)

logout ==
    /\ SettingsScreenShown(currentUser, page, activeChat)
    /\ currentUser' = <<>>
    /\ UNCHANGED <<users, settings, chats, messages, lockedChats, page, activeChat, bioPending, now, ticks, thrown, passedCheck, feedVars>>
    /\ RenderLogin("")
    /\ KeepHome
    /\ RenderSweep(FALSE)

(* App: a bottom navigation button *)
setPage(p) ==
    /\ NavShown(currentUser, page)
    /\ unlockingChatId = NoChat            \* the modal overlay covers the bar
    /\ p \in {"home", "settings"} \cup (IF settings.enablePosts THEN {"discover"} ELSE {})
    /\ page' = p
    /\ UNCHANGED <<storeVars, activeChat, bioPending, now, ticks, thrown, passedCheck, feedVars>>
    /\ RenderLogin("")
    /\ KeepHome
    /\ RenderSweep(FALSE)

(* SettingsScreen: a Toggle calling updateSettings({flag: !flag}) *)
updateSettings(flag) ==
    /\ SettingsScreenShown(currentUser, page, activeChat)
    /\ settings' = [settings EXCEPT ![flag] = ~settings[flag]]
    /\ UNCHANGED <<currentUser, users, chats, messages, lockedChats, viewVars, now, ticks, thrown, passedCheck, feedVars>>

(* The clock advances *)
Tick(d) ==
    /\ ticks < MaxTicks
    /\ IF sweepDue = <<>> THEN TRUE ELSE now < sweepDue[1]   \* a due interval fires first
    /\ now' = now + d
    /\ ticks' = ticks + 1
    /\ UNCHANGED <<storeVars, viewVars, thrown, passedCheck, feedVars>>

----------------------------------------------------------------------------
(* Blocking *)

includes(s, x) == x \in Range(s)

(* One side of toggleBlockUser: the new blockedUserIds *)
toggledIds_AlwaysAdd(blockedIds, userIdToBlock) == Append(blockedIds, userIdToBlock)

toggledIds(blockedIds, userIdToBlock) ==
    IF includes(blockedIds, userIdToBlock)
    THEN SelectSeq(blockedIds, LAMBDA id : id # userIdToBlock)
    ELSE Append(blockedIds, userIdToBlock)

(* The setUsers updater of toggleBlockUser *)
toggleBlockInUsers(us, cu, userIdToBlock) ==
    [i \in DOMAIN us |->
        IF us[i].id = cu[1].id
        THEN [us[i] EXCEPT !.blockedUserIds = toggledIds(us[i].blockedUserIds, userIdToBlock)]
        ELSE us[i]]

(* The setCurrentUser updater of toggleBlockUser *)
toggleBlockInCurrent_Skipped(cu, userIdToBlock) == cu

toggleBlockInCurrent(cu, userIdToBlock) ==
    IF cu = <<>> THEN <<>>
    ELSE << [cu[1] EXCEPT !.blockedUserIds = toggledIds(cu[1].blockedUserIds, userIdToBlock)] >>

getChatPartner(us, cu, chat) ==
    LET myId == IF cu = <<>> THEN NoId ELSE cu[1].id
        others == SelectSeq(chat.participantIds, LAMBDA id : id # myId)
    IN  FindUser(us, LAMBDA u : u.id = others[1])[1]

(* The targets the screens offer: the partner of the open chat (menu Block  *)
(* and the Unblock link of ChatScreen) and, in SettingsScreen, a user of    *)
(* the Blocked Users list *)
BlockTargets ==
    IF ChatScreenShown(currentUser, page, activeChat)
    THEN {getChatPartner(users, currentUser, activeChat[1]).id}
    ELSE IF SettingsScreenShown(currentUser, page, activeChat)
    THEN {users[i].id : i \in {j \in DOMAIN users : includes(currentUser[1].blockedUserIds, users[j].id)}}
    ELSE {}

toggleBlockUser(userIdToBlock) ==
    /\ currentUser # <<>>
    /\ userIdToBlock \in BlockTargets
    /\ users' = toggleBlockInUsers(users, currentUser, userIdToBlock)
    /\ currentUser' = toggleBlockInCurrent(currentUser, userIdToBlock)
    /\ UNCHANGED <<settings, chats, messages, lockedChats, viewVars, now, ticks, thrown, passedCheck, feedVars>>

----------------------------------------------------------------------------
(* App and HomeScreen: opening a chat *)

FindChat(cs, chatId) ==
    LET hits == SelectSeq(cs, LAMBDA c : c.id = chatId) IN
    IF hits = <<>> THEN <<>> ELSE <<hits[1]>>

IsLocked(chatId) == chatId \in DOMAIN lockedChats

(* HomeScreen.visibleChats *)
visibleChats ==
    SelectSeq(chats, LAMBDA chat :
        ~includes(getChatPartner(users, currentUser, chat).blockedUserIds,
                  IF currentUser = <<>> THEN NoId ELSE currentUser[1].id))

(* HomeScreen.handleChatClick on a row of the chat list *)
handleChatClick(chatId) ==
    /\ HomeScreenShown(currentUser, page, activeChat)
    /\ unlockingChatId = NoChat
    /\ \E i \in DOMAIN visibleChats : visibleChats[i].id = chatId
    /\ UNCHANGED <<storeVars, bioPending, error, now, ticks, thrown, passedCheck, feedVars>>
    /\ IF IsLocked(chatId) /\ chatId \notin unlockedChats
       THEN /\ UNCHANGED <<page, activeChat>>
            /\ RenderHome(chatId, unlockedChats, pinError, isAuthenticating, pinTimers)
       ELSE /\ activeChat' = FindChat(chats, chatId)       \* App.handleSelectChat
            /\ page' = "chat"
            /\ KeepHome
    /\ RenderSweep(FALSE)

(* ChatScreen: the back arrow, App.handleBackToHome *)
handleBackToHome ==
    /\ ChatScreenShown(currentUser, page, activeChat)
    /\ activeChat' = <<>>
    /\ page' = "home"
    /\ UNCHANGED <<storeVars, bioPending, error, now, ticks, thrown, passedCheck, feedVars>>
    /\ KeepHome
    /\ RenderSweep(FALSE)

----------------------------------------------------------------------------
(* Lock gate *)

Pins        == {"1234", "0000"}          \* what PinInput can hand over
StoredPins  == Pins \cup {"", NullPin}   \* what toggleChatLock can be given

Truthy(pin) == pin \notin {"", NullPin}

(* toggleChatLock: offered by the context, called by no screen of this file *)
toggleChatLock_DropsOthers(chatId, pin) ==
    /\ currentUser # <<>>
    /\ lockedChats' =
         IF Truthy(pin)
         THEN [c \in {chatId} |-> pin]
         ELSE [c \in {} |-> pin]
    /\ UNCHANGED <<currentUser, users, settings, chats, messages, viewVars, now, ticks, thrown, passedCheck, feedVars>>

toggleChatLock(chatId, pin) ==
    /\ currentUser # <<>>
    /\ lockedChats' =
         IF Truthy(pin)
         THEN [c \in DOMAIN lockedChats \cup {chatId} |->
                  IF c = chatId THEN pin ELSE lockedChats[c]]
         ELSE [c \in DOMAIN lockedChats \ {chatId} |-> lockedChats[c]]
    /\ UNCHANGED <<currentUser, users, settings, chats, messages, viewVars, now, ticks, thrown, passedCheck, feedVars>>

ModalOpen == HomeScreenShown(currentUser, page, activeChat) /\ unlockingChatId # NoChat

(* The test of UnlockChatModal.handlePinComplete *)
pinMatches(locked, chatId, pin) ==
    chatId # NoChat /\ chatId \in DOMAIN locked /\ locked[chatId] = pin

(* HomeScreen.handleUnlock with the unlockingChatId and the chats of the    *)
(* render it was created in, followed by the render *)
handleUnlock(chatId, chat) ==
    /\ passedCheck' = passedCheck \cup {chatId}
    /\ activeChat' = chat                                  \* App.handleSelectChat
    /\ page' = "chat"
    /\ RenderHome(NoChat, unlockedChats \cup {chatId}, FALSE, FALSE, pinTimers)
    /\ RenderSweep(FALSE)

(* UnlockChatModal.handlePinComplete *)
handlePinComplete(pin) ==
    /\ ModalOpen
    /\ UNCHANGED <<storeVars, bioPending, error, now, ticks, thrown, feedVars>>
    /\ IF pinMatches(lockedChats, unlockingChatId, pin)
       THEN handleUnlock(unlockingChatId, FindChat(chats, unlockingChatId))
       ELSE /\ pinTimers < MaxPinTimers
            /\ UNCHANGED <<page, activeChat, passedCheck>>
            /\ RenderHome(unlockingChatId, unlockedChats, TRUE, isAuthenticating, pinTimers + 1)
            /\ RenderSweep(FALSE)

(* The callback of setTimeout(() => setPinError(false), 1500) *)
pinErrorTimeout ==
    /\ pinTimers > 0
    /\ UNCHANGED <<storeVars, page, activeChat, bioPending, error, now, ticks, thrown, passedCheck, feedVars>>
    /\ RenderHome(unlockingChatId, unlockedChats, FALSE, isAuthenticating, pinTimers - 1)
    /\ RenderSweep(FALSE)

(* The X of the unlock modal *)
closeUnlockModal ==
    /\ ModalOpen
    /\ UNCHANGED <<storeVars, page, activeChat, bioPending, error, now, ticks, thrown, passedCheck, feedVars>>
    /\ RenderHome(NoChat, unlockedChats, pinError, isAuthenticating, pinTimers)
    /\ RenderSweep(FALSE)

(* UnlockChatModal.handleBiometricUnlock up to the await: the timeout is    *)
(* started and keeps the handleUnlock of this render *)
handleBiometricUnlock ==
    /\ ModalOpen
    /\ settings.enableBiometrics
    /\ ~isAuthenticating
    /\ bioPending' = bioPending \cup
         {[chatId |-> unlockingChatId, chat |-> FindChat(chats, unlockingChatId)]}
    /\ UNCHANGED <<storeVars, page, activeChat, error, now, ticks, thrown, passedCheck, feedVars>>
    /\ RenderHome(unlockingChatId, unlockedChats, pinError, TRUE, pinTimers)
    /\ RenderSweep(FALSE)

(* The timeout of simulateBiometricAuth fires and resolves true *)
biometricDone(b) ==
    /\ b \in bioPending
    /\ bioPending' = bioPending \ {b}
    /\ UNCHANGED <<storeVars, error, now, ticks, thrown, feedVars>>
    /\ handleUnlock(b.chatId, b.chat)

----------------------------------------------------------------------------
(* ChatScreen *)

ActiveId == activeChat[1].id

setChat(msgs, chatId, list) == [msgs EXCEPT ![chatId] = list]

isCurrentUserBlocked ==
    includes(getChatPartner(users, currentUser, activeChat[1]).blockedUserIds, currentUser[1].id)

isPartnerBlocked_Never == FALSE

isPartnerBlocked ==
    includes(currentUser[1].blockedUserIds, getChatPartner(users, currentUser, activeChat[1]).id)

(* ChatScreen.handleSendMessage with a non-blank text *)
handleSendMessage(text) ==
    /\ ChatScreenShown(currentUser, page, activeChat)
    /\ ~isPartnerBlocked /\ ~isCurrentUserBlocked
    /\ Len(messages[ActiveId]) < MaxMsgs
    /\ messages' = setChat(messages, ActiveId,
            Append(messages[ActiveId],
                   Msg(<<"msg", ActiveId, now>>, currentUser[1].id, text, now, "user")))
    /\ UNCHANGED <<currentUser, users, settings, chats, lockedChats,
                   page, activeChat, homeVars, bioPending, error, now, ticks, thrown, passedCheck, feedVars>>
    /\ RenderSweep(TRUE)

(* Reactions *)

EMOJIS == {"heart", "laugh"}       \* two of the six buttons of the picker

ReactionCount(msgs) ==
    LET RECURSIVE SumIds(_), SumEntries(_), SumChats(_)
        SumIds(rs) == IF rs = <<>> THEN 0 ELSE Len(rs[1].userIds) + SumIds(Tail(rs))
        SumEntries(list) == IF list = <<>> THEN 0
                            ELSE SumIds(list[1].reactions) + SumEntries(Tail(list))
        SumChats(cs) == IF cs = {} THEN 0
                        ELSE LET c == CHOOSE x \in cs : TRUE
                             IN  SumEntries(msgs[c]) + SumChats(cs \ {c})
    IN  SumChats(DOMAIN msgs)

(* What the map callback of toggleReaction returns for the message hit:    *)
(* its new reactions *)
toggledReactions_AlwaysAdds(reactions, emoji, userId) ==
    LET hits == {i \in DOMAIN reactions : reactions[i].emoji = emoji} IN
    IF hits = {}
    THEN Append(reactions, [emoji |-> emoji, userIds |-> <<userId>>])
    ELSE LET i == CHOOSE k \in hits : \A j \in hits : k <= j
         IN  [reactions EXCEPT ![i].userIds = Append(@, userId)]

toggledReactions_KeepsEmpty(reactions, emoji, userId) ==
    LET hits == {i \in DOMAIN reactions : reactions[i].emoji = emoji} IN
    IF hits = {}
    THEN Append(reactions, [emoji |-> emoji, userIds |-> <<userId>>])
    ELSE LET i == CHOOSE k \in hits : \A j \in hits : k <= j
             userIds == IF includes(reactions[i].userIds, userId)
                        THEN SelectSeq(reactions[i].userIds, LAMBDA id : id # userId)
                        ELSE Append(reactions[i].userIds, userId)
         IN  [reactions EXCEPT ![i].userIds = userIds]

toggledReactions(reactions, emoji, userId) ==
    LET hits == {i \in DOMAIN reactions : reactions[i].emoji = emoji} IN
    IF hits = {}
    THEN Append(reactions, [emoji |-> emoji, userIds |-> <<userId>>])
    ELSE LET i == CHOOSE k \in hits : \A j \in hits : k <= j      \* reactions.find
             userIds == IF includes(reactions[i].userIds, userId)
                        THEN SelectSeq(reactions[i].userIds, LAMBDA id : id # userId)
                        ELSE Append(reactions[i].userIds, userId)
         IN  IF userIds = <<>>
             THEN SelectSeq(reactions, LAMBDA r : r.emoji # emoji)
             ELSE [reactions EXCEPT ![i].userIds = userIds]

(* The setMessages updater of toggleReaction *)
withReaction(msgs, userId, chatId, messageId, emoji) ==
    [c \in DOMAIN msgs \cup {chatId} |->
        IF c # chatId THEN msgs[c]
        ELSE IF chatId \notin DOMAIN msgs THEN <<>>              \* prev[chatId] || []
        ELSE [i \in DOMAIN msgs[c] |->
                IF msgs[c][i].id = messageId
                THEN [msgs[c][i] EXCEPT !.reactions = toggledReactions(@, emoji, userId)]
                ELSE msgs[c][i]]]

(* ChatScreen: an emoji of the picker of a message of the open chat *)
toggleReaction(chatId, messageId, emoji) ==
    /\ ChatScreenShown(currentUser, page, activeChat)
    /\ chatId = ActiveId
    /\ \E i \in DOMAIN messages[chatId] :
          messages[chatId][i].id = messageId /\ messages[chatId][i].type # "system"
    /\ LET next == withReaction(messages, currentUser[1].id, chatId, messageId, emoji) IN
          /\ ReactionCount(next) <= MaxReactions
          /\ messages' = next
    /\ UNCHANGED <<currentUser, users, settings, chats, lockedChats,
                   page, activeChat, homeVars, bioPending, error, now, ticks, thrown, passedCheck, feedVars>>
    /\ RenderSweep(TRUE)

(* Deleting and clearing *)

NoSuchChat == "chat-9"
NoSuchMsg  == <<"msg", "9", 9>>

(* prev[chatId].filter raises a TypeError when prev[chatId] is undefined *)
deleteRaises(msgs, chatId) == chatId \notin DOMAIN msgs

withoutMessage_FirstOnly(msgs, chatId, messageId) ==
    [msgs EXCEPT ![chatId] = IF @ = <<>> THEN <<>> ELSE Tail(@)]

(* The setMessages updater of deleteMessage *)
withoutMessage(msgs, chatId, messageId) ==
    [msgs EXCEPT ![chatId] = SelectSeq(@, LAMBDA m : m.id # messageId)]

(* AppProvider.deleteMessage.  An error raised by the updater is raised    *)
(* while AppProvider renders; nothing catches it and the tree is removed.  *)
deleteMessage(chatId, messageId) ==
    /\ currentUser # <<>>
    /\ UNCHANGED <<currentUser, users, settings, chats, lockedChats,
                   page, activeChat, homeVars, bioPending, error, now, ticks, passedCheck, feedVars>>
    /\ IF deleteRaises(messages, chatId)
       THEN /\ thrown' = TRUE
            /\ UNCHANGED <<messages, sweepDue>>
       ELSE /\ thrown' = FALSE
            /\ messages' = withoutMessage(messages, chatId, messageId)
            /\ RenderSweep(TRUE)

(* ChatScreen: the trash button, shown on the messages the user sent *)
OwnMessageIds ==
    IF ChatScreenShown(currentUser, page, activeChat)
    THEN {m.id : m \in {x \in Range(messages[ActiveId]) :
                            x.type # "system" /\ x.senderId = currentUser[1].id}}
    ELSE {}

(* The setMessages updater of clearChatHistory *)
withoutHistory_AllChats(msgs, chatId) ==
    [c \in DOMAIN msgs \cup {chatId} |-> <<>>]

withoutHistory(msgs, chatId) ==
    [c \in DOMAIN msgs \cup {chatId} |-> IF c = chatId THEN <<>> ELSE msgs[c]]

(* ChatScreen.handleConfirmClearHistory *)
clearChatHistory(chatId) ==
    /\ ChatScreenShown(currentUser, page, activeChat)
    /\ chatId = ActiveId
    /\ messages' = withoutHistory(messages, chatId)
    /\ UNCHANGED <<currentUser, users, settings, chats, lockedChats,
                   page, activeChat, homeVars, bioPending, error, now, ticks, thrown, passedCheck, feedVars>>
    /\ RenderSweep(TRUE)

(* AppProvider.updateChatSettings, from the Disappearing Messages modal of  *)
(* the open chat *)
updateChatSettings(chatId, timer) ==
    /\ ChatScreenShown(currentUser, page, activeChat)
    /\ chatId = ActiveId
    /\ chats' = [i \in DOMAIN chats |->
                    IF chats[i].id = chatId
                    THEN [chats[i] EXCEPT !.disappearingMessageTimer = timer]
                    ELSE chats[i]]
    /\ UNCHANGED <<currentUser, users, settings, messages, lockedChats,
                   page, activeChat, homeVars, bioPending, error, now, ticks, thrown, passedCheck, feedVars>>
    /\ RenderSweep(FALSE)

(* The filter of the interval callback *)
survives(msg, timer, at) ==
    \/ msg.type # "user"
    \/ timer = NullTimer
    \/ at < msg.timestamp + timer

(* The timer the callback reads: chat is the prop of ChatScreen *)
sweepTimer(chat, cs) == chat.disappearingMessageTimer

swept(list, timer, at) == SelectSeq(list, LAMBDA msg : survives(msg, timer, at))

(* The callback of the setInterval of ChatScreen *)
expirySweep ==
    /\ sweepDue # <<>>
    /\ now >= sweepDue[1]
    /\ LET newMessages == swept(messages[ActiveId], sweepTimer(activeChat[1], chats), now) IN
        IF Len(newMessages) # Len(messages[ActiveId])
        THEN /\ messages' = setChat(messages, ActiveId, newMessages)
             /\ sweepDue' = <<now + SweepInterval>>      \* the effect runs again
        ELSE /\ UNCHANGED messages
             /\ sweepDue' = <<now + SweepInterval>>      \* the next period
    /\ UNCHANGED <<currentUser, users, settings, chats, lockedChats,
                   page, activeChat, homeVars, bioPending, error, now, ticks, thrown, passedCheck, feedVars>>

----------------------------------------------------------------------------
(* Stories and posts *)

Day == 24 * Hour

(* The filter of HomeScreen.activeStories *)
isActive_Inclusive(story, at) == story.timestamp >= at - Day

isActive(story, at) == story.timestamp > at - Day

activeStories(ss, at) == SelectSeq(ss, LAMBDA s : isActive(s, at))

(* HomeScreen: the users of the story row, the own circle included *)
usersWithStories == {s.userId : s \in Range(activeStories(stories, now))}

hasCurrentUserStory ==
    currentUser # <<>> /\ currentUser[1].id \in usersWithStories

(* Array.prototype.sort by ascending timestamp *)
RECURSIVE sortByTimestamp(_)
sortByTimestamp(ss) ==
    IF ss = <<>> THEN <<>>
    ELSE LET x    == ss[Len(ss)]
             rest == sortByTimestamp(SubSeq(ss, 1, Len(ss) - 1))
             k    == Cardinality({i \in DOMAIN rest : rest[i].timestamp <= x.timestamp})
         IN  SubSeq(rest, 1, k) \o <<x>> \o SubSeq(rest, k + 1, Len(rest))

(* The filter of App.handleViewUserStories *)
userStories(ss, userId, at) ==
    SelectSeq(ss, LAMBDA s : s.userId = userId /\ s.timestamp > at - Day)

StoryRowShown ==
    /\ HomeScreenShown(currentUser, page, activeChat)
    /\ settings.enableStories
    /\ unlockingChatId = NoChat
    /\ viewingUserStories = <<>>

(* App.handleViewUserStories, from a circle of the story row *)
handleViewUserStories(userId) ==
    /\ StoryRowShown
    /\ userId \in usersWithStories
    /\ LET found == userStories(stories, userId, now) IN
          viewingUserStories' =
              IF Len(found) > 0
              THEN << [user |-> userId, stories |-> sortByTimestamp(found)] >>
              ELSE viewingUserStories
    /\ UNCHANGED <<storeVars, viewVars, now, ticks, thrown, passedCheck, posts, stories>>

(* StoryViewerModal: the X, or the timer after the last story *)
closeStoryViewer ==
    /\ currentUser # <<>>
    /\ viewingUserStories # <<>>
    /\ viewingUserStories' = <<>>
    /\ UNCHANGED <<storeVars, viewVars, now, ticks, thrown, passedCheck, posts, stories>>

(* CreateStoryModal.handleShare with an image chosen; the modal is opened   *)
(* from the own circle while the user has no active story *)
addStory ==
    /\ StoryRowShown
    /\ ~hasCurrentUserStory
    /\ Len(stories) < MaxStories
    /\ stories' = << [id |-> <<"story", now>>, userId |-> currentUser[1].id,
                      timestamp |-> now] >> \o stories
    /\ UNCHANGED <<storeVars, viewVars, now, ticks, thrown, passedCheck, posts, viewingUserStories>>

(* StoryViewerModal.handleDelete on a story of the viewer's own list *)
deleteStory(storyId) ==
    /\ currentUser # <<>>
    /\ viewingUserStories # <<>>
    /\ viewingUserStories[1].user = currentUser[1].id
    /\ \E s \in Range(viewingUserStories[1].stories) : s.id = storyId
    /\ stories' = SelectSeq(stories, LAMBDA story : story.id # storyId)
    /\ UNCHANGED <<storeVars, viewVars, now, ticks, thrown, passedCheck, posts, viewingUserStories>>

(* CreatePostModal.handlePost with an image chosen; the + of the bar *)
addPost ==
    /\ NavShown(currentUser, page)
    /\ settings.enablePosts
    /\ unlockingChatId = NoChat
    /\ viewingUserStories = <<>>
    /\ Len(posts) < MaxPosts
    /\ posts' = << [id |-> <<"post", now>>, userId |-> currentUser[1].id,
                    timestamp |-> now] >> \o posts
    /\ UNCHANGED <<storeVars, viewVars, now, ticks, thrown, passedCheck, stories, viewingUserStories>>

(* DiscoverScreen.publicPosts *)
publicPosts(ps, us) ==
    LET publicUserIds == {us[i].id : i \in {j \in DOMAIN us : us[j].profileIsPublic}}
    IN  SelectSeq(ps, LAMBDA post : post.userId \in publicUserIds)

----------------------------------------------------------------------------
(* Security code *)

ChatsOf(cs, userId) == {cs[i].id : i \in {j \in DOMAIN cs : includes(cs[j].participantIds, userId)}}

notice(chatId, userId) ==
    LET who == FindUser(users, LAMBDA u : u.id = userId)
        userName == IF currentUser # <<>> /\ userId = currentUser[1].id
                    THEN <<"Your", "">>
                    ELSE <<IF who = <<>> THEN "undefined" ELSE who[1].username, "'s">>
    IN  Msg(<<"sys", chatId, now>>, SYSTEM,
            <<userName[1], userName[2], " security code changed.">>, now, "system")

(* The setMessages updater of changeSecurityCode *)
withNotices_FirstChatOnly(msgs, userId) ==
    [c \in DOMAIN msgs |->
        IF c \in ChatsOf(chats, userId) /\ c = chats[1].id /\ settings.showSecurityNotifications
        THEN Append(msgs[c], notice(c, userId))
        ELSE msgs[c]]

withNotices(msgs, userId) ==
    [c \in DOMAIN msgs |->
        IF c \in ChatsOf(chats, userId) /\ settings.showSecurityNotifications
        THEN Append(msgs[c], notice(c, userId))
        ELSE msgs[c]]

(* The code is replaced and the notices are left for later *)
changeSecurityCode_NoticesLater(userId, newCode) ==
    /\ users' = [i \in DOMAIN users |->
                    IF users[i].id = userId
                    THEN [users[i] EXCEPT !.securityCode = newCode]
                    ELSE users[i]]
    /\ UNCHANGED <<currentUser, settings, chats, messages, lockedChats, viewVars, now, ticks, thrown, passedCheck, feedVars>>

changeSecurityCode(userId, newCode) ==
    /\ users' = [i \in DOMAIN users |->
                    IF users[i].id = userId
                    THEN [users[i] EXCEPT !.securityCode = newCode]
                    ELSE users[i]]
    /\ messages' = withNotices(messages, userId)
    /\ UNCHANGED <<currentUser, settings, chats, lockedChats,
                   page, activeChat, homeVars, bioPending, error, now, ticks, thrown, passedCheck, feedVars>>
    /\ RenderSweep(TRUE)

(* SettingsScreen.handleSecurityCodeChange, confirmed *)
handleSecurityCodeChange(newCode) ==
    /\ SettingsScreenShown(currentUser, page, activeChat)
    /\ settings.showSecurityNotifications =>
           \A c \in ChatsOf(chats, currentUser[1].id) : Len(messages[c]) < MaxMsgs
    /\ changeSecurityCode(currentUser[1].id, newCode)

----------------------------------------------------------------------------
NextSession ==
    \/ \E n \in Usernames : login(n)
    \/ \E n \in Usernames, k \in RandomCodes : signup(n, k)
    \/ logout
    \/ \E p \in {"home", "settings"} : setPage(p)
    \/ \E c \in ChatIds : handleChatClick(c)
    \/ handleBackToHome
    \/ \E t \in {users[i].id : i \in DOMAIN users} : toggleBlockUser(t)
    \/ \E d \in ClockSteps : Tick(d)

SpecSession == Init /\ [][NextSession]_vars

LoginNames == {"aetheria", "Alex", "casey"}

NextSweep ==
    \/ login("aetheria")
    \/ \E c \in ChatIds : handleChatClick(c)
    \/ handleBackToHome
    \/ handleSendMessage(<<"hi", "", "">>)
    \/ \E c \in ChatIds, t \in TimerOptions : updateChatSettings(c, t)
    \/ \E p \in {"home", "settings"} : setPage(p)
    \/ handleSecurityCodeChange("k1x-k1x-k1x-k1x")
    \/ \E d \in ClockSteps : Tick(d)
    \/ expirySweep

SpecSweep == Init /\ [][NextSweep]_vars

NextLock ==
    \/ \E n \in LoginNames : login(n)
    \/ logout
    \/ \E p \in {"home", "settings"} : setPage(p)
    \/ updateSettings("enableBiometrics")
    \/ \E c \in ChatIds, pin \in StoredPins : toggleChatLock(c, pin)
    \/ \E c \in ChatIds : handleChatClick(c)
    \/ handleBackToHome
    \/ \E pin \in Pins : handlePinComplete(pin)
    \/ pinErrorTimeout
    \/ closeUnlockModal
    \/ handleBiometricUnlock
    \/ \E b \in bioPending : biometricDone(b)

SpecLock == Init /\ [][NextLock]_vars

NextCode ==
    \/ \E n \in {"aetheria", "Alex"} : login(n)
    \/ signup("bo", "k1x-k1x-k1x-k1x")
    \/ logout
    \/ \E p \in {"home", "settings"} : setPage(p)
    \/ updateSettings("showSecurityNotifications")
    \/ \E k \in RandomCodes : handleSecurityCodeChange(k)
    \/ Tick(SweepInterval)

SpecCode == Init /\ [][NextCode]_vars

MsgIds == UNION {{m.id : m \in Range(messages[c])} : c \in DOMAIN messages}

NextReact ==
    \/ \E n \in {"aetheria", "Alex"} : login(n)
    \/ logout
    \/ \E p \in {"home", "settings"} : setPage(p)
    \/ \E c \in ChatIds : handleChatClick(c)
    \/ handleBackToHome
    \/ \E c \in ChatIds, m \in MsgIds, e \in EMOJIS : toggleReaction(c, m, e)

SpecReact == Init /\ [][NextReact]_vars

NextMsgs ==
    \/ ~thrown /\ login("aetheria")
    \/ ~thrown /\ \E c \in ChatIds : handleChatClick(c)
    \/ ~thrown /\ handleBackToHome
    \/ ~thrown /\ handleSendMessage(<<"hi", "", "">>)
    \/ ~thrown /\ \E m \in OwnMessageIds : deleteMessage(ActiveId, m)
    \/ ~thrown /\ \E c \in ChatIds \cup {NoSuchChat} : deleteMessage(c, NoSuchMsg)
    \/ ~thrown /\ \E c \in ChatIds : clearChatHistory(c)
    \/ ~thrown /\ Tick(SweepInterval)

SpecMsgs == Init /\ [][NextMsgs]_vars

NextClear ==
    \/ login("aetheria")
    \/ \E c \in ChatIds : handleChatClick(c)
    \/ handleBackToHome
    \/ handleSendMessage(<<"hi", "", "">>)
    \/ \E c \in ChatIds : clearChatHistory(c)
    \/ \E d \in {SweepInterval, Timer24h} : Tick(d)
    \/ expirySweep

SpecClear == Init /\ [][NextClear]_vars

NextStories ==
    \/ \E n \in {"aetheria", "Alex"} : login(n)
    \/ logout
    \/ \E p \in {"home", "settings"} : setPage(p)
    \/ updateSettings("enableStories")
    \/ \E u \in {users[i].id : i \in DOMAIN users} : handleViewUserStories(u)
    \/ closeStoryViewer
    \/ addStory
    \/ \E s \in Range(stories) : deleteStory(s.id)
    \/ \E d \in {23 * Hour, Day} : Tick(d)

SpecStories == Init /\ [][NextStories]_vars

NextPosts ==
    \/ \E n \in {"aetheria", "Alex"} : login(n)
    \/ logout
    \/ \E p \in {"home", "settings", "discover"} : setPage(p)
    \/ \E f \in {"profileIsPublic", "enablePosts"} : updateSettings(f)
    \/ addPost
    \/ Tick(Hour)

SpecPosts == Init /\ [][NextPosts]_vars

NextNotice ==
    \/ \E n \in LoginNames : login(n)
    \/ logout
    \/ \E p \in {"home", "settings"} : setPage(p)
    \/ updateSettings("showSecurityNotifications")
    \/ \E c \in ChatIds : handleChatClick(c)
    \/ handleBackToHome
    \/ \E k \in RandomCodes : handleSecurityCodeChange(k)
    \/ Tick(SweepInterval)

SpecNotice == Init /\ [][NextNotice]_vars

NextBlock ==
    \/ \E n \in LoginNames : login(n)
    \/ logout
    \/ \E p \in {"home", "settings"} : setPage(p)
    \/ \E c \in ChatIds : handleChatClick(c)
    \/ handleBackToHome
    \/ \E t \in {users[i].id : i \in DOMAIN users} : toggleBlockUser(t)
    \/ handleSendMessage(<<"hi", "", "">>)

SpecBlock == Init /\ [][NextBlock]_vars

(* Every handler together *)
Next == NextSession \/ NextSweep \/ NextLock \/ NextCode \/ NextReact \/ NextMsgs \/ NextClear \/ NextStories \/ NextPosts \/ NextNotice \/ NextBlock

Spec == Init /\ [][Next]_vars

----------------------------------------------------------------------------
(* Claims *)

UserIds == {users[i].id : i \in DOMAIN users}

BlockSet(u) == Range(u.blockedUserIds)

DirectoryEntries(id) == {users[i] : i \in {j \in DOMAIN users : users[j].id = id}}

(* C1: no two users of the directory have usernames that are equal when     *)
(* compared case-insensitively, whatever signups, logins and logouts ran.   *)
C1_UniqueUsernames ==
    \A i, j \in DOMAIN users :
        i # j => toLowerCase(users[i].username) # toLowerCase(users[j].username)

(* A signup went through and a later signup of a taken name was refused *)
C1_Witness ==
    /\ Len(users) > Len(MOCK_USERS)
    /\ error = "Username is already taken."

(* C9: while a user is logged in, the directory entry with the current      *)
(* user's id and the cached current-user record hold the same blocked ids.  *)
C9_BlockSetsInSync ==
    currentUser # <<>> =>
        /\ DirectoryEntries(currentUser[1].id) # {}
        /\ \A u \in DirectoryEntries(currentUser[1].id) :
               BlockSet(u) = BlockSet(currentUser[1])

(* toggleBlockUser has blocked two users and the user has moved on to the   *)
(* settings page *)
C9_Witness ==
    /\ currentUser # <<>>
    /\ Cardinality(BlockSet(currentUser[1])) = 2
    /\ page = "settings"

Flip(S, x) == IF x \in S THEN S \ {x} ELSE S \cup {x}

EntryOf(us, id) == FindUser(us, LAMBDA u : u.id = id)[1]

(* C10: in every reachable logged-in state and for every target id, one     *)
(* toggleBlockUser call flips the membership of the target only, in the     *)
(* directory entry and in the current-user record, and a second call        *)
(* restores both block sets.                                                *)
C10_ToggleBlockSelfInverse ==
    currentUser # <<>> =>
        \A t \in UserIds \cup {<<"user", 0>>} :
            LET me  == currentUser[1].id
                us1 == toggleBlockInUsers(users, currentUser, t)
                cu1 == toggleBlockInCurrent(currentUser, t)
                us2 == toggleBlockInUsers(us1, cu1, t)
                cu2 == toggleBlockInCurrent(cu1, t)
            IN  /\ BlockSet(cu1[1]) = Flip(BlockSet(currentUser[1]), t)
                /\ BlockSet(EntryOf(us1, me)) = Flip(BlockSet(EntryOf(users, me)), t)
                /\ BlockSet(cu2[1]) = BlockSet(currentUser[1])
                /\ BlockSet(EntryOf(us2, me)) = BlockSet(EntryOf(users, me))
                /\ \A i \in DOMAIN users :
                       users[i].id # me => us1[i] = users[i] /\ us2[i] = users[i]

(* The acting user has a blocked id already, so that both the removing and  *)
(* the adding branch are taken *)
C10_Witness ==
    /\ currentUser # <<>>
    /\ currentUser[1].blockedUserIds # <<>>
    /\ Len(EntryOf(users, currentUser[1].id).blockedUserIds) = 2

----------------------------------------------------------------------------
(* Expiry sweep claims, under SpecSweep *)

ConfiguredTimer(chatId) == FindChat(chats, chatId)[1].disappearingMessageTimer

Last(list) == list[Len(list)]

(* C2: for a chat whose configured timer is T, a sweep at time now leaves   *)
(* exactly the messages that are not of type user or have now < t + T: the  *)
(* expired user messages are gone, the others and the system messages stay. *)
C2_SweepEvictsByConfiguredTimer ==
    [][ (expirySweep /\ ConfiguredTimer(ActiveId) # NullTimer) =>
            messages'[ActiveId] =
                SelectSeq(messages[ActiveId],
                          LAMBDA m : m.type # "user"
                                     \/ now < m.timestamp + ConfiguredTimer(ActiveId)) ]_vars

(* C3: every sweep that fires is a sweep of the chat on screen with the     *)
(* timer now configured for it, and none fires once that timer is cleared   *)
(* or the chat view is left.                                                *)
C3_SweepRearmedOnTimerChange ==
    [][ expirySweep =>
            /\ ChatScreenShown(currentUser, page, activeChat)
            /\ ConfiguredTimer(ActiveId) # NullTimer
            /\ sweepTimer(activeChat[1], chats) = ConfiguredTimer(ActiveId) ]_vars

(* C4: the sweep removes no message from a chat whose configured timer is   *)
(* null.                                                                    *)
C4_NoSweepWithoutTimer ==
    [][ \A c \in ChatIds :
            (expirySweep /\ ConfiguredTimer(c) = NullTimer) =>
                messages'[c] = messages[c] ]_vars

----------------------------------------------------------------------------
(* Lock gate claims, under SpecLock *)

(* C5: a PIN attempt on a locked chat succeeds exactly when the PIN equals  *)
(* the stored one; on success the chat is in the unlocked set and is        *)
(* opened, on failure the unlocked set and the page are unchanged; earlier  *)
(* failures (a raised error flag, pending timeouts) change nothing of this. *)
C5_PinUnlock ==
    [][ \A pin \in Pins :
            (handlePinComplete(pin) /\ IsLocked(unlockingChatId)) =>
                IF pin = lockedChats[unlockingChatId]
                THEN /\ unlockingChatId \in unlockedChats'
                     /\ page' = "chat"
                     /\ activeChat'[1].id = unlockingChatId
                ELSE /\ unlockedChats' = unlockedChats
                     /\ page' = page ]_vars

(* HomeScreen: the row of the chat list shows the last message *)
PreviewShown(chatId) ==
    /\ HomeScreenShown(currentUser, page, activeChat)
    /\ \E i \in DOMAIN visibleChats : visibleChats[i].id = chatId
    /\ ~(IsLocked(chatId) /\ chatId \notin unlockedChats)

(* C6: a locked chat is opened from the chat list only if it is in the      *)
(* unlocked set, its preview is shown in the list only if it is in the      *)
(* unlocked set, and the unlocked set grows only by a PIN attempt equal to  *)
(* the stored PIN or by a completed biometric check.                        *)
C6_LockGatesVisibility ==
    [][ /\ \A c \in ChatIds :
               ( /\ HomeScreenShown(currentUser, page, activeChat)
                 /\ ChatScreenShown(currentUser', page', activeChat')
                 /\ activeChat'[1].id = c
                 /\ IsLocked(c) ) => c \in unlockedChats'
        /\ \A c \in ChatIds : (PreviewShown(c) /\ IsLocked(c)) => c \in unlockedChats
        /\ \A c \in unlockedChats' \ unlockedChats :
               \/ \E pin \in Pins : handlePinComplete(pin) /\ pinMatches(lockedChats, c, pin)
               \/ \E b \in bioPending : biometricDone(b) /\ b.chatId = c ]_vars

----------------------------------------------------------------------------
(* Security code claims, under SpecCode *)

IsNotice(m) == m.type = "system" /\ m.senderId = SYSTEM

(* C7: changeSecurityCode(userId) with showSecurityNotifications on appends *)
(* exactly one system message of sender "system" at the end of every chat   *)
(* of userId, keeping the earlier messages, and leaves the other chats as   *)
(* they are; with showSecurityNotifications off it leaves every chat as it  *)
(* is.                                                                      *)
C7_NoticePerChat ==
    [][ \A k \in RandomCodes :
            handleSecurityCodeChange(k) =>
                \A c \in ChatIds :
                    IF c \in ChatsOf(chats, currentUser[1].id) /\ settings.showSecurityNotifications
                    THEN /\ Len(messages'[c]) = Len(messages[c]) + 1
                         /\ SubSeq(messages'[c], 1, Len(messages[c])) = messages[c]
                         /\ IsNotice(Last(messages'[c]))
                    ELSE messages'[c] = messages[c] ]_vars

(* The user of chat-1 alone has changed the code: a notice at the end of    *)
(* chat-1, none in chat-2 *)
C7_Witness ==
    /\ IsNotice(Last(messages["chat-1"]))
    /\ \A i \in DOMAIN messages["chat-2"] : ~IsNotice(messages["chat-2"][i])
    /\ users[2].securityCode \in RandomCodes

(* C8: in every step that changes a user's security code in the directory   *)
(* while showSecurityNotifications is on, every chat of that user gets its  *)
(* notice in the same step: no state has the new code with a notice missing.*)
C8_CodeChangeAtomic ==
    [][ \A i \in DOMAIN users :
            (users'[i].securityCode # users[i].securityCode /\ settings.showSecurityNotifications) =>
                \A c \in ChatsOf(chats, users[i].id) :
                    /\ Len(messages'[c]) = Len(messages[c]) + 1
                    /\ IsNotice(Last(messages'[c]))
                    /\ Last(messages'[c]).timestamp = now ]_vars

(* The user of both chats has a new code and both chats end with a notice   *)
C8_Witness ==
    /\ users[1].securityCode \in RandomCodes
    /\ IsNotice(Last(messages["chat-1"]))
    /\ IsNotice(Last(messages["chat-2"]))

----------------------------------------------------------------------------
(* Reaction claims, under SpecReact *)

(* The reactions of a message as a mapping: the entries as pairs of an      *)
(* emoji and the set of its user ids *)
ReactionMap(reactions) == {<<r.emoji, Range(r.userIds)>> : r \in Range(reactions)}

(* C11: for every chat, message, emoji and logged-in user, toggleReaction   *)
(* applied twice by that user leaves every message's reactions, viewed as   *)
(* a mapping from emoji to set of user ids, as they were.                   *)
C11_ToggleReactionSelfInverse ==
    currentUser # <<>> =>
        \A c \in DOMAIN messages, e \in EMOJIS : \A i \in DOMAIN messages[c] :
            LET userId == currentUser[1].id
                once   == withReaction(messages, userId, c, messages[c][i].id, e)
                twice  == withReaction(once, userId, c, messages[c][i].id, e)
            IN  /\ DOMAIN twice = DOMAIN messages
                /\ \A d \in DOMAIN messages :
                      /\ Len(twice[d]) = Len(messages[d])
                      /\ \A j \in DOMAIN messages[d] :
                            ReactionMap(twice[d][j].reactions) =
                                ReactionMap(messages[d][j].reactions)

(* The three starting cases at once: toggleReaction has built an entry      *)
(* with the current user and another user, an entry of another user only    *)
(* exists, and an emoji has no entry *)
C11_Witness ==
    /\ currentUser # <<>>
    /\ \E c \in DOMAIN messages : \E i \in DOMAIN messages[c] :
          \E r \in Range(messages[c][i].reactions) :
              /\ includes(r.userIds, currentUser[1].id)
              /\ Len(r.userIds) = 2
    /\ \E c \in DOMAIN messages : \E i \in DOMAIN messages[c] :
          \E r \in Range(messages[c][i].reactions) :
              ~includes(r.userIds, currentUser[1].id)
    /\ \E c \in DOMAIN messages : \E i \in DOMAIN messages[c] :
          messages[c][i].reactions = <<>>

(* C12: every reaction entry of every message has a non-empty user list     *)
(* without repeated user ids, and no message has two entries of one emoji.  *)
C12_NoEmptyReactionEntries ==
    \A c \in DOMAIN messages : \A i \in DOMAIN messages[c] :
        LET reactions == messages[c][i].reactions IN
        /\ \A k \in DOMAIN reactions :
              /\ reactions[k].userIds # <<>>
              /\ \A a, b \in DOMAIN reactions[k].userIds :
                    a # b => reactions[k].userIds[a] # reactions[k].userIds[b]
        /\ \A k, l \in DOMAIN reactions :
              k # l => reactions[k].emoji # reactions[l].emoji

(* The last user of the seed entry took the reaction back and the entry is  *)
(* gone, while another message carries two entries *)
C12_Witness ==
    /\ messages["chat-1"][2].reactions = <<>>
    /\ \E c \in DOMAIN messages : \E i \in DOMAIN messages[c] :
          Len(messages[c][i].reactions) = 2

----------------------------------------------------------------------------
(* Deletion claims, under SpecMsgs *)

Without(list, i) == [k \in 1..(Len(list) - 1) |-> IF k < i THEN list[k] ELSE list[k + 1]]

(* C13: deleting a message of the open chat removes exactly one message,    *)
(* the one with that id: the list is the old list without one element, in   *)
(* the old order, and the lists of the other chats are as before.           *)
C13_DeleteRemovesExactlyOne ==
    [][ \A m \in OwnMessageIds :
            deleteMessage(ActiveId, m) =>
                /\ \E i \in DOMAIN messages[ActiveId] :
                      /\ messages[ActiveId][i].id = m
                      /\ messages'[ActiveId] = Without(messages[ActiveId], i)
                /\ \A c \in DOMAIN messages \ {ActiveId} : messages'[c] = messages[c] ]_vars

(* C14: deleteMessage with an id no message has, for a chat with or         *)
(* without a message list, raises nothing and changes no list, and          *)
(* clearChatHistory on an empty chat leaves it empty.                       *)
C14_DeleteAbsentIsNoOp ==
    [][ /\ \A c \in ChatIds \cup {NoSuchChat} :
              deleteMessage(c, NoSuchMsg) =>
                  /\ ~thrown'
                  /\ DOMAIN messages' = DOMAIN messages
                  /\ \A d \in DOMAIN messages : messages'[d] = messages[d]
        /\ \A c \in ChatIds :
              (clearChatHistory(c) /\ messages[c] = <<>>) => messages'[c] = <<>> ]_vars

----------------------------------------------------------------------------
(* Login and signup claims, under SpecSession *)

Matches(username) ==
    {i \in DOMAIN users : toLowerCase(users[i].username) = toLowerCase(username)}

(* C15: after a successful login or signup the profileIsPublic of the       *)
(* settings equals the profileIsPublic of the user who became current.      *)
C15_SettingsMirrorProfile ==
    [][ \A n \in Usernames :
            ( /\ (login(n) \/ \E k \in RandomCodes : signup(n, k))
              /\ currentUser' # <<>> )
            => settings'.profileIsPublic = currentUser'[1].profileIsPublic ]_vars

(* C16: login succeeds exactly when a user matches the name without regard  *)
(* to case; a login without a match and a signup of a taken name are        *)
(* refused and leave the current user, the directory and the settings as    *)
(* they were.                                                               *)
C16_FailedLoginOrSignupChangesNothing ==
    [][ \A n \in Usernames :
          /\ login(n) =>
                IF Matches(n) # {}
                THEN /\ currentUser' # <<>>
                     /\ toLowerCase(currentUser'[1].username) = toLowerCase(n)
                     /\ error' = ""
                ELSE /\ error' = "Invalid username or password."
                     /\ UNCHANGED <<currentUser, users, settings>>
          /\ \A k \in RandomCodes :
                (signup(n, k) /\ Matches(n) # {}) =>
                     /\ error' = "Username is already taken."
                     /\ UNCHANGED <<currentUser, users, settings>> ]_vars

(* A login with an unknown name has just been refused, after a public user *)
(* had logged in under a name of other case and logged out: the settings    *)
(* still hold that user's flag *)
C16_Witness ==
    /\ error = "Invalid username or password."
    /\ currentUser = <<>>
    /\ settings.profileIsPublic
    /\ users = MOCK_USERS

----------------------------------------------------------------------------
(* Unlock dialog claims, under SpecLock *)

(* C17: once the biometric check was started for a chat, its delayed        *)
(* callback reports success whatever happened to the dialog in between,     *)
(* and the chat it was started for is then unlocked and opened.  This is    *)
(* the step of the callback; that the callback is reached is the timer's    *)
(* doing.                                                                   *)
C17_BiometricUnlocksAndOpens ==
    [][ \A b \in bioPending :
            biometricDone(b) =>
                /\ b.chatId \in unlockedChats'
                /\ page' = "chat"
                /\ activeChat' # <<>>
                /\ activeChat'[1].id = b.chatId ]_vars

(* C18: the error flag raised by a failed PIN attempt stays set until the   *)
(* timeout counted from that attempt has fired: while the timeout of some   *)
(* failed attempt is still pending, the flag is set.                        *)
C18_ErrorFlagUntilOwnTimeout ==
    pinTimers > 0 => pinError

(* C19: a chat whose PIN or biometric check has succeeded needs no further  *)
(* check: clicking it in the chat list opens it at once.                    *)
C19_UnlockedForViewSession ==
    [][ \A c \in ChatIds :
            (handleChatClick(c) /\ c \in passedCheck) =>
                /\ page' = "chat"
                /\ activeChat' # <<>>
                /\ activeChat'[1].id = c ]_vars

(* C20: toggleChatLock with a PIN stores that PIN under the chat id and     *)
(* with null removes the entry; the entries of the other chats and the set  *)
(* of unlocked chats stay as they were; nothing else changes LockedChats,   *)
(* so a chat has an entry exactly when its last call supplied a PIN.        *)
C20_ToggleChatLockSetsOrClears ==
    [][ /\ \A c \in ChatIds, pin \in StoredPins :
              toggleChatLock(c, pin) =>
                  /\ pin \in Pins => (c \in DOMAIN lockedChats' /\ lockedChats'[c] = pin)
                  /\ pin = NullPin => c \notin DOMAIN lockedChats'
                  /\ c \in DOMAIN lockedChats' <=> pin \in Pins
                  /\ DOMAIN lockedChats' \ {c} = DOMAIN lockedChats \ {c}
                  /\ \A d \in DOMAIN lockedChats \ {c} : lockedChats'[d] = lockedChats[d]
                  /\ unlockedChats' = unlockedChats
        /\ lockedChats' # lockedChats =>
              \E c \in ChatIds, pin \in StoredPins : toggleChatLock(c, pin) ]_vars

(* A chat that was locked and opened by a check has lost its entry again,   *)
(* while the other chat keeps the PIN it was given *)
C20_Witness ==
    /\ passedCheck = {"chat-2"}
    /\ DOMAIN lockedChats = {"chat-1"}
    /\ lockedChats["chat-1"] = "0000"

----------------------------------------------------------------------------
(* Clearing and sweeping, under SpecClear *)

(* C21: clearChatHistory replaces the list of that chat alone with the      *)
(* empty list, and the expiry sweep run on the cleared chat right after it  *)
(* leaves every list as it is, for every timer value; so does the interval  *)
(* callback whenever it fires on an empty chat.                             *)
C21_ClearThenSweepIsNoOp ==
    [][ /\ \A c \in ChatIds :
              clearChatHistory(c) =>
                  /\ DOMAIN messages' = DOMAIN messages
                  /\ messages'[c] = <<>>
                  /\ \A d \in DOMAIN messages \ {c} : messages'[d] = messages[d]
                  /\ \A t \in TimerOptions : swept(messages'[c], t, now') = messages'[c]
        /\ (expirySweep /\ messages[ActiveId] = <<>>) => messages' = messages ]_vars

(* The open chat has a timer and was cleared, its interval has fired on     *)
(* the empty list, and the other chat still has its messages *)
C21_Witness ==
    /\ ChatScreenShown(currentUser, page, activeChat)
    /\ activeChat[1].id = "chat-2"
    /\ messages["chat-2"] = <<>>
    /\ messages["chat-1"] = MOCK_MESSAGES["chat-1"]
    /\ sweepDue = <<now + SweepInterval>>
    /\ ticks > 0

----------------------------------------------------------------------------
(* Logout and the discovery feed, under SpecPosts *)

(* C22: logout sets the current user to none and leaves the user            *)
(* directory, the settings, the chats, the message lists, LockedChats, the  *)
(* posts and the stories as they were.                                      *)
C22_LogoutFrame ==
    [][ logout =>
            /\ currentUser' = <<>>
            /\ UNCHANGED <<users, settings, chats, messages, lockedChats, posts, stories>> ]_vars

(* Logged out after the user had changed the settings and added a post *)
C22_Witness ==
    /\ currentUser = <<>>
    /\ settings.enablePosts
    /\ settings.profileIsPublic
    /\ Len(posts) > Len(MOCK_POSTS)

PostsOf(userId) == {post \in Range(posts) : post.userId = userId}

(* C25: when the logged-in user switches Public Profile, the public posts   *)
(* of the discovery feed contain that user's posts if the switch is now on  *)
(* and none of them if it is now off.                                       *)
C25_PublicPostsFollowToggle ==
    [][ updateSettings("profileIsPublic") =>
            LET shown == Range(publicPosts(posts', users')) IN
            IF settings'.profileIsPublic
            THEN PostsOf(currentUser[1].id) \subseteq shown
            ELSE PostsOf(currentUser[1].id) \cap shown = {} ]_vars

----------------------------------------------------------------------------
(* Stories, under SpecStories *)

(* C23: a story is among the active stories of the home row exactly when    *)
(* now minus its timestamp is less than 24 hours, and the stories the       *)
(* viewer would open for a user are the active stories of that user.        *)
C23_ActiveStoriesCutoff ==
    /\ \A i \in DOMAIN stories :
          (stories[i] \in Range(activeStories(stories, now)))
              <=> (now - stories[i].timestamp < Day)
    /\ \A i \in DOMAIN users :
          Range(userStories(stories, users[i].id, now)) =
              {s \in Range(activeStories(stories, now)) : s.userId = users[i].id}
    /\ viewingUserStories # <<>> =>
          \A s \in Range(viewingUserStories[1].stories) : s.userId = viewingUserStories[1].user

(* Stories of 23 hours, of exactly 24 hours and of 25 hours are in the      *)
(* store and the viewer has been opened *)
C23_Witness ==
    /\ \E s \in Range(stories) : now - s.timestamp = 23 * Hour
    /\ \E s \in Range(stories) : now - s.timestamp = Day
    /\ \E s \in Range(stories) : now - s.timestamp = 25 * Hour
    /\ viewingUserStories # <<>>
    /\ \A s \in Range(viewingUserStories[1].stories) : now - s.timestamp = 23 * Hour

----------------------------------------------------------------------------
(* The wording of the notice, under SpecNotice *)

(* The participants of a chat whose security code is no longer the seed one *)
ChangedUsers(chat) ==
    {id \in Range(chat.participantIds) :
        \E i \in DOMAIN MOCK_USERS :
            /\ MOCK_USERS[i].id = id
            /\ EntryOf(users, id).securityCode # MOCK_USERS[i].securityCode}

(* C24: a security-code notice shown in the open chat reads "Your security  *)
(* code changed." exactly when the viewer is the user whose code changed,   *)
(* and names that user otherwise.  Stated for the chats in which one        *)
(* participant has changed the code, so that the notices are that user's.   *)
C24_NoticeFromViewersPerspective ==
    ChatScreenShown(currentUser, page, activeChat) =>
        \A s \in ChangedUsers(activeChat[1]) :
            ChangedUsers(activeChat[1]) = {s} =>
                \A i \in DOMAIN messages[ActiveId] :
                    IsNotice(messages[ActiveId][i]) =>
                        IF currentUser[1].id = s
                        THEN messages[ActiveId][i].text[1] = "Your"
                        ELSE messages[ActiveId][i].text[1] = EntryOf(users, s).username

----------------------------------------------------------------------------
(* Sending and blocking, under SpecBlock *)

ParticipantsOf(chatId) == Range(FindChat(chats, chatId)[1].participantIds)

(* C26: whenever a step appends a user-type message to a chat, its sender   *)
(* has, in the directory of that moment, blocked no other participant of    *)
(* the chat and is blocked by none of them.                                 *)
C26_BlockedCannotSend ==
    [][ \A c \in ChatIds :
            ( /\ Len(messages'[c]) = Len(messages[c]) + 1
              /\ Last(messages'[c]).type = "user" )
            => LET sender == Last(messages'[c]).senderId IN
               \A p \in ParticipantsOf(c) \ {sender} :
                   /\ p \notin BlockSet(EntryOf(users, sender))
                   /\ sender \notin BlockSet(EntryOf(users, p)) ]_vars

(* The user has blocked the partner of the open chat, to whom nothing was   *)
(* sent, and has sent a message to the chat of a partner who is not blocked *)
C26_Witness ==
    /\ ChatScreenShown(currentUser, page, activeChat)
    /\ activeChat[1].id = "chat-1"
    /\ isPartnerBlocked
    /\ messages["chat-1"] = MOCK_MESSAGES["chat-1"]
    /\ Len(messages["chat-2"]) > Len(MOCK_MESSAGES["chat-2"])

----------------------------------------------------------------------------
(* The current-user record, under SpecCode *)

(* C27: while a user is logged in, the current-user record equals, field    *)
(* by field, the directory entry with the same id.                          *)
C27_CacheEqualsDirectory ==
    currentUser # <<>> =>
        /\ DirectoryEntries(currentUser[1].id) # {}
        /\ \A u \in DirectoryEntries(currentUser[1].id) :
              /\ u.username = currentUser[1].username
              /\ u.profileIsPublic = currentUser[1].profileIsPublic
              /\ u.securityCode = currentUser[1].securityCode
              /\ BlockSet(u) = BlockSet(currentUser[1])

----------------------------------------------------------------------------
(* Message ids, under SpecMsgs *)

(* C28: within each chat all message ids are distinct.                      *)
C28_MessageIdsDistinct ==
    \A c \in DOMAIN messages : \A i, j \in DOMAIN messages[c] :
        i # j => messages[c][i].id # messages[c][j].id

----------------------------------------------------------------------------
(* The chat list, under SpecSession *)

(* C30: every chat of the list shown to the logged-in user has that user    *)
(* among its participants, and so has the chat that is open.                *)
C30_OnlyOwnChatsVisible ==
    /\ HomeScreenShown(currentUser, page, activeChat) =>
          \A i \in DOMAIN visibleChats :
              includes(visibleChats[i].participantIds, currentUser[1].id)
    /\ ChatScreenShown(currentUser, page, activeChat) =>
          includes(activeChat[1].participantIds, currentUser[1].id)

----------------------------------------------------------------------------
(* The sweep under activity, under SpecSweep *)

(* A user message of the open chat that the timer of the chat has expired *)
ExpiredInOpenChat ==
    /\ ChatScreenShown(currentUser, page, activeChat)
    /\ sweepDue # <<>>
    /\ \E m \in Range(messages[ActiveId]) :
          /\ m.type = "user"
          /\ now >= m.timestamp + activeChat[1].disappearingMessageTimer

(* C29: while a chat with a timer stays open and holds an expired message,  *)
(* the sweep keeps its schedule whatever else happens: no step other than   *)
(* the sweep itself moves the time at which the interval fires next.        *)
C29_SweepKeepsFiringUnderActivity ==
    [][ ( /\ ExpiredInOpenChat
          /\ ChatScreenShown(currentUser', page', activeChat')
          /\ activeChat' = activeChat
          /\ ~expirySweep )
        => sweepDue' = sweepDue ]_vars

====
